---- MODULE Spec2Model ----
(***************************************************************************)
(* Instance lifecycle manager and terminal-connection registry of          *)
(* play-with-docker (pwd/instance.go).                                     *)
(*                                                                         *)
(* API tasks call InstanceNew, InstanceDelete, InstanceAttachTerminal and  *)
(* InstanceWriteToTerminal; every successful InstanceNew spawns a relay    *)
(* goroutine that runs InstanceAttachTerminal.  The container engine, the  *)
(* storage and the event bus are collaborators: the engine's and the       *)
(* storage's results are chosen nondeterministically.                      *)
(***************************************************************************)
EXTENDS Integers, Sequences, FiniteSets, TLC

\* ------------------------------------------------------------------ bounds
MaxOps == 3      \* calls of the API made in one run of Spec
MaxLifeOps == 2  \* calls of the API made in one run of SpecLife
MaxNewOps == 3   \* calls of InstanceNew made in one run of SpecNew
MaxConfOps == 2  \* calls of InstanceNew made in one run of SpecConf
MaxNodes == 4    \* a session of SpecLife starts with some of node1..nodeMaxNodes

\* ------------------------------------------------------------------ inputs
Sessions == {"aaaaaaaa-1111", "bbbbbbbb-2222"}
Tasks == {"t1", "t2"}
\* the goroutine started by the k-th `go p.InstanceAttachTerminal(instance)`
Relay(k) == "r" \o ToString(k)
Relays == {Relay(k) : k \in 1..(MaxOps + MaxLifeOps + MaxNewOps + MaxConfOps)}
Threads == Tasks \cup Relays
NoTask == "none"
Nil == 0

DindImageName == "franela/dind"
ImageNames == {"", "franela/ucp:2.4.1", "franela/ucp"}
ExplicitHostnames == {"node2"}
IPs == {"10.0.0.3"}
DataInputs == {"", "ls"}

EmptyMap == [x \in {} |-> 0]

VARIABLES
    lock,        \* session.Lock(): the task holding each session's lock
    Instances,   \* session.Instances: name -> instance, per session
    terms,       \* the process-wide registry: session id -> name -> conn
    conns,       \* the channels the engine handed out, by conn id
    containers,  \* the engine's containers: name -> options
    stored,      \* the persisted instance records
    out,         \* what the last step sent out: events emitted, setGauges() calls
    pc,          \* each thread's position
    call,        \* each thread's call in progress: arguments and locals
    ret,         \* the call that returned in the last step, with its result
    nSpawn,      \* relay goroutines spawned
    nOps,        \* calls of the API made so far
    fate         \* history: <<session id, name>> -> "live" once created,
                 \* "deleted" once an InstanceDelete of it returned nil

vars == <<lock, Instances, terms, conns, containers, stored, out,
          pc, call, ret, nSpawn, nOps, fate>>

\* ---------------------------------------------------------- pure functions

\* fmt.Sprintf("node%d", i)
NodeName(i) == "node" \o ToString(i)

\* fmt.Sprintf("%s_%s", session.Id[:8], hostname)
ContainerName(sid, hostname) == SubSeq(sid, 1, 8) \o "_" \o hostname

\* the loop of checkHostnameExists over session.Instances
checkHostnameExists(insts, sid, hostname) ==
    \E k \in DOMAIN insts : insts[k].Name = ContainerName(sid, hostname)

\* for i := 1; ; i++ { ... if !exists { break } }
RECURSIVE AllocFrom(_, _, _)
AllocFrom(insts, sid, i) ==
    IF checkHostnameExists(insts, sid, NodeName(i))
    THEN AllocFrom(insts, sid, i + 1)
    ELSE NodeName(i)

\* a variant that numbers the nodes with a counter: one more than the
\* instances the session holds
AllocHostname_Counter(insts, sid) == NodeName(Cardinality(DOMAIN insts) + 1)

AllocHostname(insts, sid) == AllocFrom(insts, sid, 1)

\* a variant whose last entry has lost its tag
InstanceAllowedImages_Untagged ==
    <<DindImageName, "franela/dind:overlay2-dev", "franela/ucp">>

InstanceAllowedImages ==
    <<DindImageName, "franela/dind:overlay2-dev", "franela/ucp:2.4.1">>

\* for _, imageName := range p.InstanceAllowedImages() { if conf.ImageName == imageName ... }
Privileged(image) ==
    \E k \in 1..Len(InstanceAllowedImages) : InstanceAllowedImages[k] = image

\* conf.ImageName after the default is applied
EffectiveImage(conf) ==
    IF conf.ImageName = "" THEN DindImageName ELSE conf.ImageName

getInstanceTermConn(sid, name) ==
    IF sid \in DOMAIN terms /\ name \in DOMAIN terms[sid]
    THEN terms[sid][name]
    ELSE Nil

\* delete(m, k)
MapRemove(m, k) == [x \in DOMAIN m \ {k} |-> m[x]]

\* m[k] = v
MapPut(m, k, v) == [x \in DOMAIN m \cup {k} |-> IF x = k THEN v ELSE m[x]]

NoConf == [ImageName |-> "", Hostname |-> ""]
NoInstance == [Name |-> "", Hostname |-> "", Image |-> "", IP |-> "",
               SessionId |-> "", IsDockerHost |-> FALSE]

NoOpts == [Image |-> "", SessionId |-> "", ContainerName |-> "", Hostname |-> "",
           Privileged |-> FALSE]

NoCall == [op |-> "", sid |-> "", name |-> "", conf |-> NoConf, data |-> "",
           opts |-> NoOpts, conn |-> Nil, inst |-> NoInstance, engine |-> "",
           wrote |-> Nil, delivered |-> FALSE, peer |-> NoTask, err |-> ""]

\* no call returned in the last step
NoRet == [th |-> NoTask, c |-> NoCall]

\* thread th returns from call c
Return(th, c) == [th |-> th, c |-> c]

\* the position a thread returns to
Returned(th) == IF th \in Tasks THEN "idle" ELSE "done"

\* ------------------------------------------------------------------- Init
Init ==
    /\ lock = [s \in Sessions |-> NoTask]
    /\ Instances = [s \in Sessions |-> EmptyMap]
    /\ terms = EmptyMap
    /\ conns = <<>>
    /\ containers = EmptyMap
    /\ stored = {}
    /\ out = <<>>
    /\ pc = [th \in Threads |-> IF th \in Tasks THEN "idle" ELSE "none"]
    /\ call = [th \in Threads |-> NoCall]
    /\ ret = NoRet
    /\ nSpawn = 0
    /\ nOps = 0
    /\ fate = EmptyMap

\* ---------------------------------------------------------------- InstanceNew

\* a task calls InstanceNew(session, conf) and waits for session.Lock()
NewBegin(t, s, conf) ==
    /\ pc[t] = "idle"
    /\ pc' = [pc EXCEPT ![t] = "new_lock"]
    /\ call' = [call EXCEPT ![t] = [NoCall EXCEPT !.op = "InstanceNew",
                                                   !.sid = s, !.conf = conf,
                                                   !.peer = lock[s]]]
    /\ ret' = NoRet
    /\ out' = <<>>
    /\ UNCHANGED <<lock, Instances, terms, conns, containers, stored, nSpawn, fate>>

\* the instance record InstanceNew builds from the options and the engine's ip
NewInstanceRecord(sid, opts, ip) ==
    [Name |-> opts.ContainerName,
     Hostname |-> opts.Hostname,
     Image |-> opts.Image,
     IP |-> ip,
     SessionId |-> sid,
     IsDockerHost |-> opts.Privileged]

\* conf.Hostname after the allocation loop
EffectiveHostname(insts, sid, conf) ==
    IF conf.Hostname = "" THEN AllocHostname(insts, sid) ELSE conf.Hostname

\* docker.CreateContainerOpts as InstanceNew fills it
CreateContainerOpts(sid, conf, hostname) ==
    [Image |-> EffectiveImage(conf),
     SessionId |-> sid,
     ContainerName |-> ContainerName(sid, hostname),
     Hostname |-> hostname,
     Privileged |-> Privileged(EffectiveImage(conf))]

\* a variant of NewScan that does not wait for the session's lock
NewScan_NoLock(t) ==
    /\ pc[t] = "new_lock"
    /\ LET s == call[t].sid
           conf == call[t].conf
           hostname == EffectiveHostname(Instances[s], s, conf)
       IN /\ lock' = [lock EXCEPT ![s] = t]
          /\ pc' = [pc EXCEPT ![t] = "new_create"]
          /\ call' = [call EXCEPT ![t].opts = CreateContainerOpts(s, conf, hostname),
                                  ![t].name = ContainerName(s, hostname)]
    /\ ret' = NoRet
    /\ out' = <<>>
    /\ UNCHANGED <<Instances, terms, conns, containers, stored, nSpawn, nOps, fate>>

\* session.Lock() is granted; the default image is applied, the hostname is
\* allocated and the options are filled
NewScan(t) ==
    /\ pc[t] = "new_lock"
    /\ lock[call[t].sid] = NoTask
    /\ LET s == call[t].sid
           conf == call[t].conf
           hostname == EffectiveHostname(Instances[s], s, conf)
       IN /\ lock' = [lock EXCEPT ![s] = t]
          /\ pc' = [pc EXCEPT ![t] = "new_create"]
          /\ call' = [call EXCEPT ![t].opts = CreateContainerOpts(s, conf, hostname),
                                  ![t].name = ContainerName(s, hostname)]
    /\ ret' = NoRet
    /\ out' = <<>>
    /\ UNCHANGED <<Instances, terms, conns, containers, stored, nSpawn, nOps, fate>>

\* a variant of the error return that keeps the session's lock
NewCreateFails_KeepsLock(t) ==
    /\ pc' = [pc EXCEPT ![t] = "idle"]
    /\ call' = [call EXCEPT ![t] = NoCall]
    /\ ret' = Return(t, [call[t] EXCEPT !.engine = "error", !.err = "ErrCreate"])
    /\ UNCHANGED <<lock, Instances, terms, conns, containers, stored,
                   nSpawn, nOps, fate>>

\* CreateContainer returns an error: InstanceNew returns it, the deferred
\* session.Unlock() runs
NewCreateFails(t) ==
    /\ pc' = [pc EXCEPT ![t] = "idle"]
    /\ lock' = [lock EXCEPT ![call[t].sid] = NoTask]
    /\ call' = [call EXCEPT ![t] = NoCall]
    /\ ret' = Return(t, [call[t] EXCEPT !.engine = "error", !.err = "ErrCreate"])
    /\ UNCHANGED <<Instances, terms, conns, containers, stored,
                   nSpawn, nOps, fate>>

\* the engine creates the container or fails; on success the instance is put
\* in session.Instances and the relay goroutine is started.  On an engine
\* error InstanceNew returns it and the deferred Unlock runs.
NewCreate(t) ==
    /\ pc[t] = "new_create"
    /\ out' = <<>>
    /\ LET s == call[t].sid
           conf == call[t].conf
           opts == call[t].opts
           name == opts.ContainerName
       IN \/ NewCreateFails(t)
          \/ \* CreateContainer returns an address
             \E ip \in IPs :
                LET instance == NewInstanceRecord(s, opts, ip)
                    r == Relay(nSpawn + 1)
                IN /\ name \notin DOMAIN containers
                   /\ containers' = MapPut(containers, name, opts)
                   /\ Instances' = [Instances EXCEPT ![s] = MapPut(@, name, instance)]
                   /\ nSpawn' = nSpawn + 1
                   /\ fate' = MapPut(fate, <<s, name>>, "live")
                   /\ pc' = [pc EXCEPT ![t] = "new_persist", ![r] = "att_lookup"]
                   /\ call' = [call EXCEPT
                                 ![t].engine = "ok",
                                 ![t].inst = instance,
                                 ![r] = [NoCall EXCEPT !.op = "InstanceAttachTerminal",
                                                       !.sid = instance.SessionId,
                                                       !.name = instance.Name]]
                   /\ ret' = NoRet
                   /\ UNCHANGED <<lock, terms, conns, stored, nOps>>

\* a variant of the failure of storage.InstanceCreate that undoes the
\* creation: the instance leaves session.Instances, the container is removed
NewPersistFails_RollsBack(t) ==
    /\ call' = [call EXCEPT ![t].err = "ErrStorage"]
    /\ out' = <<>>
    /\ Instances' = [Instances EXCEPT ![call[t].sid] = MapRemove(@, call[t].inst.Name)]
    /\ containers' = MapRemove(containers, call[t].inst.Name)
    /\ UNCHANGED stored

\* a variant of the failure of storage.InstanceCreate that emits the event
NewPersistFails_Emits(t) ==
    /\ call' = [call EXCEPT ![t].err = "ErrStorage"]
    /\ out' = << <<"INSTANCE_NEW", call[t].sid, call[t].inst.Name,
                   call[t].inst.IP, call[t].inst.Hostname>> >>
    /\ UNCHANGED <<stored, Instances, containers>>

\* storage.InstanceCreate fails: InstanceNew is about to return the error
NewPersistFails(t) ==
    /\ call' = [call EXCEPT ![t].err = "ErrStorage"]
    /\ out' = <<>>
    /\ UNCHANGED <<stored, Instances, containers>>

\* storage.InstanceCreate, then the INSTANCE_NEW event and setGauges
NewPersist(t) ==
    /\ pc[t] = "new_persist"
    /\ pc' = [pc EXCEPT ![t] = "new_ret"]
    /\ ret' = NoRet
    /\ LET s == call[t].sid
           instance == call[t].inst
       IN \/ NewPersistFails(t)
          \/ /\ stored' = stored \cup {<<s, instance.Name>>}
             /\ out' = << <<"INSTANCE_NEW", s, instance.Name, instance.IP,
                            instance.Hostname>>, <<"setGauges">> >>
             /\ call' = [call EXCEPT ![t].err = "nil"]
             /\ UNCHANGED <<Instances, containers>>
    /\ UNCHANGED <<lock, terms, conns, nSpawn, nOps, fate>>

\* return (instance, nil) or (nil, err); the deferred session.Unlock() runs
NewReturn(t) ==
    /\ pc[t] = "new_ret"
    /\ lock' = [lock EXCEPT ![call[t].sid] = NoTask]
    /\ pc' = [pc EXCEPT ![t] = "idle"]
    /\ call' = [call EXCEPT ![t] = NoCall]
    /\ ret' = Return(t, [call[t] EXCEPT
                           !.inst = IF call[t].err = "nil" THEN @ ELSE NoInstance])
    /\ out' = <<>>
    /\ UNCHANGED <<Instances, terms, conns, containers, stored, nSpawn, nOps, fate>>

\* ------------------------------------------------------------- InstanceDelete

\* a variant of the close that leaves the channel open
CloseConn_Noop(cs, c) == cs

\* conn.Close()
CloseConn(cs, c) ==
    IF c = Nil THEN cs ELSE [cs EXCEPT ![c].state = "closed"]

\* a task calls InstanceDelete(session, instance) on an instance of the session:
\* the registered channel, if any, is closed
DelBegin(t, s, name) ==
    /\ pc[t] = "idle"
    /\ name \in DOMAIN Instances[s]
    /\ LET conn == getInstanceTermConn(s, name)
       IN /\ conns' = CloseConn(conns, conn)
          /\ call' = [call EXCEPT ![t] = [NoCall EXCEPT !.op = "InstanceDelete",
                                            !.sid = s, !.name = name, !.conn = conn]]
    /\ pc' = [pc EXCEPT ![t] = "del_engine"]
    /\ ret' = NoRet
    /\ out' = <<>>
    /\ UNCHANGED <<lock, Instances, terms, containers, stored, nSpawn, fate>>

\* a variant of storage.InstanceDelete that leaves session.Instances alone
StorageInstanceDelete_RecordOnly(s, name) ==
    /\ stored' = stored \ {<<s, name>>}
    /\ UNCHANGED Instances

\* storage.InstanceDelete: the persisted record and the session's entry go
StorageInstanceDelete(s, name) ==
    /\ stored' = stored \ {<<s, name>>}
    /\ Instances' = [Instances EXCEPT ![s] = MapRemove(@, name)]

\* the steps of InstanceDelete after the engine call did not abort it
DelAfterEngine(t, s, name, outcome) ==
    \/ \* storage.InstanceDelete fails
       /\ out' = << <<"INSTANCE_DELETE", s, name>> >>
       /\ ret' = Return(t, [call[t] EXCEPT !.engine = outcome, !.err = "ErrStorage"])
       /\ UNCHANGED <<stored, Instances, fate>>
    \/ /\ out' = << <<"INSTANCE_DELETE", s, name>>, <<"setGauges">> >>
       /\ StorageInstanceDelete(s, name)
       /\ fate' = MapPut(fate, <<s, name>>, "deleted")
       /\ ret' = Return(t, [call[t] EXCEPT !.engine = outcome, !.err = "nil"])

\* InstanceDelete returns the engine's error
DelAbort(t, outcome) ==
    /\ ret' = Return(t, [call[t] EXCEPT !.engine = outcome, !.err = "ErrEngine"])
    /\ out' = <<>>
    /\ UNCHANGED <<stored, Instances, fate>>

\* a variant that aborts on every engine error
Aborts_AnyError(outcome) == outcome # "ok"

\* a variant that goes on after every engine error
Aborts_Never(outcome) == FALSE

\* err != nil && !strings.Contains(err.Error(), "No such container")
Aborts(outcome) == outcome # "ok" /\ outcome # "nosuch"

\* what DeleteContainer can answer: the container is removed ("ok"), it is
\* not there ("nosuch"), or the engine fails otherwise ("other")
DeleteOutcomes(name) ==
    IF name \in DOMAIN containers THEN {"ok", "other"} ELSE {"nosuch", "other"}

\* DeleteContainer and everything after it
DelRemove(t) ==
    /\ pc[t] = "del_engine"
    /\ pc' = [pc EXCEPT ![t] = "idle"]
    /\ call' = [call EXCEPT ![t] = NoCall]
    /\ LET s == call[t].sid
           name == call[t].name
       IN \E outcome \in DeleteOutcomes(name) :
             /\ containers' = IF outcome = "ok" THEN MapRemove(containers, name)
                                                ELSE containers
             /\ IF Aborts(outcome)
                THEN DelAbort(t, outcome)
                ELSE DelAfterEngine(t, s, name, outcome)
    /\ UNCHANGED <<lock, terms, conns, nSpawn, nOps>>

\* ----------------------------------------------------- InstanceAttachTerminal

\* a variant of the lookup that never finds the connection registered
AttLookup_NoCheck(th, s, name) ==
    /\ pc' = [pc EXCEPT ![th] = "att_connect"]
    /\ call' = [call EXCEPT ![th] = [NoCall EXCEPT !.op = "InstanceAttachTerminal",
                                                    !.sid = s, !.name = name]]
    /\ ret' = NoRet
    /\ out' = <<>>
    /\ UNCHANGED <<lock, Instances, terms, conns, containers, stored, nSpawn, fate>>

\* the lookup that opens InstanceAttachTerminal
AttLookup(th, s, name) ==
    /\ LET c == [NoCall EXCEPT !.op = "InstanceAttachTerminal", !.sid = s,
                               !.name = name]
       IN IF getInstanceTermConn(s, name) # Nil
          THEN /\ pc' = [pc EXCEPT ![th] = Returned(th)]
               /\ call' = [call EXCEPT ![th] = NoCall]
               /\ ret' = Return(th, [c EXCEPT !.err = "nil"])
          ELSE /\ pc' = [pc EXCEPT ![th] = "att_connect"]
               /\ call' = [call EXCEPT ![th] = c]
               /\ ret' = NoRet
    /\ out' = <<>>
    /\ UNCHANGED <<lock, Instances, terms, conns, containers, stored, nSpawn, fate>>

\* a task calls InstanceAttachTerminal(instance) on an instance of a session
TaskAttach(t, s, name) ==
    /\ pc[t] = "idle"
    /\ name \in DOMAIN Instances[s]
    /\ AttLookup(t, s, name)

\* the relay goroutine of InstanceNew starts running
RelayStart(r) ==
    /\ pc[r] = "att_lookup"
    /\ AttLookup(r, call[r].sid, call[r].name)
    /\ UNCHANGED nOps

\* CreateAttachConnection
AttConnect(th) ==
    /\ pc[th] = "att_connect"
    /\ \/ /\ call[th].name \in DOMAIN containers
          /\ conns' = Append(conns, [container |-> call[th].name,
                                     state |-> "open"])
          /\ pc' = [pc EXCEPT ![th] = "att_register"]
          /\ call' = [call EXCEPT ![th].conn = Len(conns) + 1]
          /\ ret' = NoRet
       \/ /\ pc' = [pc EXCEPT ![th] = Returned(th)]
          /\ call' = [call EXCEPT ![th] = NoCall]
          /\ ret' = Return(th, [call[th] EXCEPT !.err = "ErrAttach"])
          /\ UNCHANGED conns
    /\ out' = <<>>
    /\ UNCHANGED <<lock, Instances, terms, containers, stored, nSpawn, nOps, fate>>

\* terms[instance.SessionId][instance.Name] = conn
RegisterConn(reg, sid, name, conn) ==
    IF sid \notin DOMAIN reg
    THEN MapPut(reg, sid, MapPut(EmptyMap, name, conn))
    ELSE MapPut(reg, sid, MapPut(reg[sid], name, conn))

AttRegister(th) ==
    /\ pc[th] = "att_register"
    /\ terms' = RegisterConn(terms, call[th].sid, call[th].name, call[th].conn)
    /\ pc' = [pc EXCEPT ![th] = "att_copy"]
    /\ ret' = NoRet
    /\ out' = <<>>
    /\ UNCHANGED <<lock, Instances, conns, containers, stored, call, nSpawn, nOps, fate>>

\* io.Copy returns once the channel is closed or has ended
AttCopyEnd(th) ==
    /\ pc[th] = "att_copy"
    /\ conns[call[th].conn].state # "open"
    /\ pc' = [pc EXCEPT ![th] = Returned(th)]
    /\ call' = [call EXCEPT ![th] = NoCall]
    /\ ret' = Return(th, [call[th] EXCEPT !.err = "nil"])
    /\ out' = <<>>
    /\ UNCHANGED <<lock, Instances, terms, conns, containers, stored, nSpawn, nOps, fate>>

\* th is about to insert into terms while u is about to read it or to insert
\* into it: terms is a plain map and nothing orders the two accesses
Races(th, u) ==
    /\ th # u
    /\ pc[th] = "att_register"
    /\ pc[u] \in {"att_lookup", "att_register"}

\* the two accesses overlap and the runtime detects it ("fatal error:
\* concurrent map writes", "concurrent map read and map write"): the process
\* dies. When it does not, the accesses take effect in either order.
RegistryFault(th, u) ==
    /\ Races(th, u)
    /\ pc' = [x \in Threads |-> "fatal"]
    /\ ret' = NoRet
    /\ out' = <<>>
    /\ UNCHANGED <<lock, Instances, terms, conns, containers, stored, call,
                   nSpawn, nOps, fate>>

\* ---------------------------------------------------- InstanceWriteToTerminal

\* conn.Write([]byte(data)) reaches the other side while the channel is open;
\* on a closed or ended channel it fails, and the failure is dropped
Delivers(cs, c) == cs[c].state = "open"

\* a variant of the guard that also writes empty data
Writes_Empty(conn, data) == conn # Nil

\* if conn != nil && len(data) > 0
Writes(conn, data) == conn # Nil /\ Len(data) > 0

WriteToTerminal(t, s, name, data) ==
    /\ pc[t] = "idle"
    /\ LET conn == getInstanceTermConn(s, name)
           writes == Writes(conn, data)
       IN ret' = Return(t, [NoCall EXCEPT
                       !.op = "InstanceWriteToTerminal", !.sid = s,
                       !.name = name, !.data = data, !.conn = conn,
                       !.wrote = IF writes THEN conn ELSE Nil,
                       !.delivered = writes /\ Delivers(conns, conn),
                       !.err = "nil"])
    /\ out' = <<>>
    /\ UNCHANGED <<lock, Instances, terms, conns, containers, stored, pc, call,
                   nSpawn, fate>>

\* ------------------------------------------------------------- the engine

\* the remote side of a channel ends the stream
ConnEOF(c) ==
    /\ conns[c].state = "open"
    /\ conns' = [conns EXCEPT ![c].state = "eof"]
    /\ ret' = NoRet
    /\ out' = <<>>
    /\ UNCHANGED <<lock, Instances, terms, containers, stored, pc, call, nSpawn, nOps, fate>>

\* --------------------------------------------------------------- the system

\* one more call of the API is made, of at most max
Budget(max) == nOps < max /\ nOps' = nOps + 1

\* the configurations of Spec: the default image and one hostname, so that
\* the calls are about one instance name
Confs == [ImageName : {""}, Hostname : {"node1"}]

\* the instances of a session a caller can get hold of (InstanceGet)
Names(s) == DOMAIN Instances[s]

\* the names a caller of InstanceWriteToTerminal passes
WriteNames(s) == {ContainerName(s, NodeName(i)) : i \in 1..2}

\* Spec: every operation, on one session and one instance name, in runs of
\* at most MaxOps calls
SpecSessions == {"aaaaaaaa-1111"}

Next ==
    \/ \E t \in Tasks, s \in SpecSessions, conf \in Confs :
          Budget(MaxOps) /\ NewBegin(t, s, conf)
    \/ \E t \in Tasks : NewScan(t)
    \/ \E t \in Tasks : NewCreate(t)
    \/ \E t \in Tasks : NewPersist(t)
    \/ \E t \in Tasks : NewReturn(t)
    \/ \E t \in Tasks, s \in SpecSessions : \E name \in Names(s) :
          Budget(MaxOps) /\ DelBegin(t, s, name)
    \/ \E t \in Tasks : DelRemove(t)
    \/ \E t \in Tasks, s \in SpecSessions : \E name \in Names(s) :
          Budget(MaxOps) /\ TaskAttach(t, s, name)
    \/ \E r \in Relays : RelayStart(r)
    \/ \E th \in Threads : AttConnect(th)
    \/ \E th \in Threads : AttRegister(th)
    \/ \E th \in Threads : AttCopyEnd(th)
    \/ \E th, u \in Threads : RegistryFault(th, u)
    \/ \E t \in Tasks, s \in SpecSessions :
          \E name \in WriteNames(s), data \in DataInputs :
             Budget(MaxOps) /\ WriteToTerminal(t, s, name, data)
    \/ \E c \in 1..Len(conns) : ConnEOF(c)

Spec == Init /\ [][Next]_vars

\* SpecRelay: Spec under fair scheduling of the threads: a task or a relay
\* that can take its next step takes it. The remote side of a channel is not
\* scheduled by the program and may keep the stream open for ever.
ThreadFairness ==
    /\ \A t \in Tasks : /\ WF_vars(NewScan(t))
                        /\ WF_vars(NewCreate(t))
                        /\ WF_vars(NewPersist(t))
                        /\ WF_vars(NewReturn(t))
                        /\ WF_vars(DelRemove(t))
    /\ \A r \in Relays : WF_vars(RelayStart(r))
    /\ \A th \in Threads : /\ WF_vars(AttConnect(th))
                           /\ WF_vars(AttRegister(th))
                           /\ WF_vars(AttCopyEnd(th))

SpecRelay == Init /\ [][Next]_vars /\ ThreadFairness

\* ------------------------------------------------------------------ SpecLife
\* SpecLife: InstanceNew and InstanceDelete on sessions that already hold some
\* of node1..nodeMaxNodes, each attached; the relays of the new instances are
\* started and not yet scheduled.

\* the name of node{i} in session s
NodeContainer(s, i) == ContainerName(s, NodeName(i))

\* the node whose container name is n
NodeOf(s, H, n) == CHOOSE i \in H : NodeContainer(s, i) = n

\* session.Instances of a session holding the nodes H, created with the
\* default image
InstancesOf(s, H) ==
    [n \in {NodeContainer(s, i) : i \in H} |->
        NewInstanceRecord(s, CreateContainerOpts(s, NoConf,
                                                 NodeName(NodeOf(s, H, n))),
                          "10.0.0.3")]

ContainersOf(s, H) ==
    [n \in {NodeContainer(s, i) : i \in H} |->
        CreateContainerOpts(s, NoConf, NodeName(NodeOf(s, H, n)))]

\* the channels of the nodes H, in the order of the nodes
RECURSIVE ConnsOf(_, _)
ConnsOf(s, H) ==
    IF H = {} THEN <<>>
    ELSE LET m == CHOOSE i \in H : \A j \in H : j <= i
         IN Append(ConnsOf(s, H \ {m}),
                   [container |-> NodeContainer(s, m), state |-> "open"])

\* the registry of a session holding the nodes H: node i has the channel
\* that ConnsOf puts at its rank
TermsOf(s, H) ==
    IF H = {} THEN EmptyMap
    ELSE MapPut(EmptyMap, s,
                [n \in {NodeContainer(s, i) : i \in H} |->
                    Cardinality({j \in H : j <= NodeOf(s, H, n)})])

\* the session of SpecLife that starts with nodes
LifeSession == "aaaaaaaa-1111"

InitLife ==
    \E s0 \in {LifeSession}, H \in SUBSET (1..MaxNodes) :
       /\ lock = [s \in Sessions |-> NoTask]
       /\ Instances = [s \in Sessions |->
                          IF s = s0 THEN InstancesOf(s, H) ELSE EmptyMap]
       /\ terms = TermsOf(s0, H)
       /\ conns = ConnsOf(s0, H)
       /\ containers = ContainersOf(s0, H)
       /\ stored = {<<s0, NodeContainer(s0, i)>> : i \in H}
       /\ out = <<>>
       /\ pc = [th \in Threads |-> IF th \in Tasks THEN "idle" ELSE "none"]
       /\ call = [th \in Threads |-> NoCall]
       /\ ret = NoRet
       /\ nSpawn = 0
       /\ nOps = 0
       /\ fate = [k \in {<<s0, NodeContainer(s0, i)>> : i \in H} |-> "live"]

LifeConfs == [ImageName : {""}, Hostname : {""} \cup ExplicitHostnames]

NextLife ==
    \/ \E t \in Tasks, s \in {LifeSession}, conf \in LifeConfs :
          Budget(MaxLifeOps) /\ NewBegin(t, s, conf)
    \/ \E t \in Tasks : NewScan(t)
    \/ \E t \in Tasks : NewCreate(t)
    \/ \E t \in Tasks : NewPersist(t)
    \/ \E t \in Tasks : NewReturn(t)
    \/ \E t \in Tasks, s \in {LifeSession} : \E name \in Names(s) :
          Budget(MaxLifeOps) /\ DelBegin(t, s, name)
    \/ \E t \in Tasks : DelRemove(t)

SpecLife == InitLife /\ [][NextLife]_vars

\* ------------------------------------------------------------------- SpecNew
\* SpecNew: calls of InstanceNew that omit the image and the hostname,
\* overlapping, on sessions that start empty

NextNew ==
    \/ \E t \in Tasks, s \in Sessions :
          Budget(MaxNewOps) /\ NewBegin(t, s, NoConf)
    \/ \E t \in Tasks : NewScan(t)
    \/ \E t \in Tasks : NewCreate(t)
    \/ \E t \in Tasks : NewPersist(t)
    \/ \E t \in Tasks : NewReturn(t)

\* a task that can take a step of its call takes it: no call hangs for ever
\* in the scheduler, and session.Lock() returns once the lock stays free
NewFairness ==
    \A t \in Tasks : /\ WF_vars(NewScan(t))
                     /\ WF_vars(NewCreate(t))
                     /\ WF_vars(NewPersist(t))
                     /\ WF_vars(NewReturn(t))

SpecNew == Init /\ [][NextNew]_vars /\ NewFairness

\* ------------------------------------------------------------------ SpecConf
\* SpecConf: calls of InstanceNew with every image, with and without a
\* hostname, on sessions that start empty

AllConfs == [ImageName : ImageNames, Hostname : {""} \cup ExplicitHostnames]

NextConf ==
    \/ \E t \in Tasks, s \in Sessions, conf \in AllConfs :
          Budget(MaxConfOps) /\ NewBegin(t, s, conf)
    \/ \E t \in Tasks : NewScan(t)
    \/ \E t \in Tasks : NewCreate(t)
    \/ \E t \in Tasks : NewPersist(t)
    \/ \E t \in Tasks : NewReturn(t)

SpecConf == Init /\ [][NextConf]_vars

\* -------------------------------------------------------------- properties

\* the instances of session s that were created and not successfully deleted
LiveNames(s) == {k[2] : k \in {x \in DOMAIN fate : x[1] = s /\ fate[x] = "live"}}

\* the calls of InstanceNew that are past session.Lock()
InNew(t) == pc[t] \in {"new_create", "new_persist", "new_ret"}

\* at most one InstanceNew per session is past the lock, and the name an
\* automatic allocation has chosen is the name of no live instance
C1_Distinct ==
    /\ \A t \in Tasks : \A u \in Tasks \ {t} :
          (InNew(t) /\ InNew(u)) => call[t].sid # call[u].sid
    /\ \A t \in Tasks :
          (pc[t] = "new_create" /\ call[t].conf.Hostname = "") =>
             /\ call[t].name \notin DOMAIN Instances[call[t].sid]
             /\ call[t].name \notin LiveNames(call[t].sid)
             /\ call[t].name = ContainerName(call[t].sid, call[t].opts.Hostname)

\* C1: two InstanceNew calls on one session that overlap and omit the hostname
\* both return (a call waiting for the session's lock gets it and finishes),
\* and the hostname and key the later one chooses differ from those of every
\* instance the session holds, the one its peer created included.
C1_ConcurrentCreate ==
    /\ []C1_Distinct
    /\ \A t \in Tasks : (pc[t] = "new_lock") ~> (pc[t] = "idle")

\* two overlapping automatic calls on the empty session both created: node1
\* and node2
C1_Witness ==
    \E t \in Tasks :
       /\ pc[t] = "new_ret"
       /\ call[t].err = "nil"
       /\ call[t].conf.Hostname = ""
       /\ call[t].peer # NoTask
       /\ call[t].sid = "bbbbbbbb-2222"
       /\ call[t].inst.Hostname = "node2"
       /\ nSpawn = 2
       /\ DOMAIN Instances["bbbbbbbb-2222"] = {"bbbbbbbb_node1", "bbbbbbbb_node2"}
       /\ Instances["bbbbbbbb-2222"]["bbbbbbbb_node1"].Hostname = "node1"

\* a step replaces the registered channel of some key while it is open
Overwrites ==
    \E s \in DOMAIN terms : \E n \in DOMAIN terms[s] :
       /\ conns[terms[s][n]].state = "open"
       /\ terms'[s][n] # terms[s][n]

\* C2: under any interleaving of InstanceAttachTerminal calls for one instance
\* at most one channel is obtained from the engine for it, and a registered
\* channel is never replaced in the registry while it is open.
C2_OneConnection ==
    [][/\ ~Overwrites
       /\ \A c \in 1..Len(conns') : \A d \in 1..Len(conns') :
             conns'[c].container = conns'[d].container => c = d]_vars

\* thread th calls InstanceAttachTerminal in this step and goes on to the
\* engine
AttachGoesOn(th) ==
    pc[th] \in {"idle", "att_lookup"} /\ pc'[th] = "att_connect"

\* thread th calls InstanceAttachTerminal in this step and returns at once
AttachReturns(th) ==
    /\ pc[th] \in {"idle", "att_lookup"}
    /\ ret'.th = th
    /\ ret'.c.op = "InstanceAttachTerminal"

\* C3: an InstanceAttachTerminal that finds a channel registered for its
\* instance returns nil at once: it asks the engine for no channel, registers
\* nothing and runs no copy loop; only a call that finds none goes on.
C3_IdempotentAttach ==
    [][\A th \in Threads :
          /\ AttachGoesOn(th) =>
                getInstanceTermConn(call'[th].sid, call'[th].name) = Nil
          /\ AttachReturns(th) =>
                /\ getInstanceTermConn(ret'.c.sid, ret'.c.name) # Nil
                /\ ret'.c.err = "nil"
                /\ ret'.c.conn = Nil
                /\ pc'[th] = Returned(th)
                /\ conns' = conns
                /\ terms' = terms]_vars

\* a second attach has just returned nil without a channel of its own
C3_Witness ==
    /\ ret.c.op = "InstanceAttachTerminal"
    /\ ret.th \in Tasks
    /\ ret.c.err = "nil"
    /\ ret.c.conn = Nil
    /\ getInstanceTermConn(ret.c.sid, ret.c.name) # Nil
    /\ Len(conns) = 1

\* C4: once InstanceDelete has returned nil the registry holds no entry for
\* the instance's session id and name.
C4_DeleteClearsRegistry ==
    (ret.c.op = "InstanceDelete" /\ ret.c.err = "nil") =>
       getInstanceTermConn(ret.c.sid, ret.c.name) = Nil

\* C5: a write to an instance whose InstanceDelete has returned nil delivers
\* no byte to an open channel, emits nothing and changes neither the registry
\* nor the session's instances.
C5_WriteAfterDelete ==
    [][\A t \in Tasks, s \in Sessions : \A n \in WriteNames(s), data \in DataInputs :
          (/\ <<s, n>> \in DOMAIN fate
           /\ fate[<<s, n>>] = "deleted"
           /\ WriteToTerminal(t, s, n, data)) =>
             /\ ~ret'.c.delivered
             /\ out' = <<>>
             /\ terms' = terms
             /\ Instances' = Instances]_vars

\* C6: when DeleteContainer answers "No such container", InstanceDelete emits
\* INSTANCE_DELETE for the instance and calls storage.InstanceDelete; when that
\* succeeds the persisted record is gone, the gauges are updated and nil is
\* returned.
C6_DeleteAlreadyRemoved ==
    (ret.c.op = "InstanceDelete" /\ ret.c.engine = "nosuch") =>
       /\ ret.c.err \in {"nil", "ErrStorage"}
       /\ Len(out) >= 1
       /\ out[1] = <<"INSTANCE_DELETE", ret.c.sid, ret.c.name>>
       /\ ret.c.err = "nil" =>
             /\ out = << <<"INSTANCE_DELETE", ret.c.sid, ret.c.name>>, <<"setGauges">> >>
             /\ <<ret.c.sid, ret.c.name>> \notin stored

\* an InstanceDelete of a container that was already gone has returned nil
C6_Witness ==
    /\ ret.c.op = "InstanceDelete"
    /\ ret.c.engine = "nosuch"
    /\ ret.c.err = "nil"
    /\ ret.c.name \notin DOMAIN containers

\* C7: when DeleteContainer fails with another error, InstanceDelete returns
\* that error: no event is emitted, the persisted record and the session's
\* instances stay, setGauges is not called.
C7_DeleteAborts ==
    [][\A t \in Tasks :
          (DelRemove(t) /\ ret'.c.engine = "other") =>
             /\ ret'.c.err = "ErrEngine"
             /\ out' = <<>>
             /\ stored' = stored
             /\ Instances' = Instances
             /\ containers' = containers]_vars

\* an InstanceDelete has returned the engine's error and the record is kept
C7_Witness ==
    /\ ret.c.op = "InstanceDelete"
    /\ ret.c.engine = "other"
    /\ ret.c.err = "ErrEngine"
    /\ <<ret.c.sid, ret.c.name>> \in stored
    /\ ret.c.name \in DOMAIN containers

\* the images that make a container privileged
AllowList == {DindImageName, "franela/dind:overlay2-dev", "franela/ucp:2.4.1"}

\* the image a call of InstanceNew uses
ImageUsed(conf) == IF conf.ImageName = "" THEN DindImageName ELSE conf.ImageName

\* C8: the container of an InstanceNew is privileged, and its instance has
\* IsDockerHost, exactly when the image used (the one asked for, else the
\* default) is one of the allowed images.
C8_Privilege ==
    /\ \A t \in Tasks :
          pc[t] \in {"new_create", "new_persist", "new_ret"} =>
             /\ call[t].opts.Image = ImageUsed(call[t].conf)
             /\ call[t].opts.Privileged = (ImageUsed(call[t].conf) \in AllowList)
    /\ \A t \in Tasks :
          pc[t] \in {"new_persist", "new_ret"} =>
             /\ call[t].inst.Image = ImageUsed(call[t].conf)
             /\ call[t].inst.IsDockerHost = (ImageUsed(call[t].conf) \in AllowList)
             /\ call[t].opts.ContainerName \in DOMAIN containers =>
                   containers[call[t].opts.ContainerName].Privileged
                      = (ImageUsed(call[t].conf) \in AllowList)
    /\ \A s \in Sessions : \A n \in DOMAIN Instances[s] :
          Instances[s][n].IsDockerHost = (Instances[s][n].Image \in AllowList)
    /\ \A n \in DOMAIN containers :
          containers[n].Privileged = (containers[n].Image \in AllowList)

\* an instance was created from an image that is not allowed: not privileged
C8_Witness ==
    \E t \in Tasks :
       /\ pc[t] = "new_ret"
       /\ call[t].err = "nil"
       /\ call[t].conf.ImageName = "franela/ucp"
       /\ ~call[t].inst.IsDockerHost
       /\ call[t].inst.Name \in DOMAIN containers
       /\ ~containers[call[t].inst.Name].Privileged

\* no instance among the names has the container identity of node{N} in the
\* session
Unused(names, sid, N) ==
    \A n \in names : n # SubSeq(sid, 1, 8) \o "_node" \o ToString(N)

\* the smallest N >= 1 whose container identity none of the names has
SmallestUnused(names, sid) ==
    CHOOSE N \in 1..(Cardinality(names) + 1) :
       /\ Unused(names, sid, N)
       /\ \A M \in 1..(N - 1) : ~Unused(names, sid, M)

\* the names of the instances in a session's mapping
InstanceNames(s) == {Instances[s][k].Name : k \in DOMAIN Instances[s]}

\* C9: an InstanceNew without a hostname chooses node{N} for the smallest
\* N >= 1 such that no instance in the session's mapping at that moment has the
\* container identity <first 8 characters of the session id>_node{N}.
C9_SmallestUnused ==
    [][\A t \in Tasks :
          (NewScan(t) /\ call[t].conf.Hostname = "") =>
             LET sid == call[t].sid
                 N == SmallestUnused(InstanceNames(sid), sid)
             IN /\ call'[t].opts.Hostname = "node" \o ToString(N)
                /\ call'[t].opts.ContainerName
                      = SubSeq(sid, 1, 8) \o "_node" \o ToString(N)]_vars

\* the session holds node1, node2 and node4, and the allocation chose node3
C9_Witness ==
    \E t \in Tasks :
       /\ pc[t] = "new_create"
       /\ call[t].conf.Hostname = ""
       /\ call[t].sid = LifeSession
       /\ InstanceNames(LifeSession)
             = {"aaaaaaaa_node1", "aaaaaaaa_node2", "aaaaaaaa_node4"}
       /\ call[t].opts.Hostname = "node3"

C11_CreateError ==
    [][\A t \in Tasks :
          (pc[t] = "new_create" /\ ret'.th = t /\ ret'.c.engine = "error") =>
             /\ ret'.c.op = "InstanceNew"
             /\ ret'.c.err = "ErrCreate"
             /\ ret'.c.inst = NoInstance
             /\ pc'[t] = "idle"
             /\ lock[call[t].sid] = t
             /\ lock'[call[t].sid] = NoTask
             /\ Instances' = Instances
             /\ terms' = terms
             /\ conns' = conns
             /\ containers' = containers
             /\ stored' = stored
             /\ nSpawn' = nSpawn
             /\ \A r \in Relays : pc'[r] = pc[r]
             /\ out' = <<>>]_vars

\* an InstanceNew on a session that holds node1 has returned the engine's
\* error, and the lock is free
C11_Witness ==
    /\ ret.c.op = "InstanceNew"
    /\ ret.c.err = "ErrCreate"
    /\ ret.c.sid = LifeSession
    /\ lock[LifeSession] = NoTask
    /\ "aaaaaaaa_node1" \in DOMAIN Instances[LifeSession]
    /\ ret.c.name \notin DOMAIN Instances[LifeSession]
    /\ nSpawn = 0

\* the relay goroutines stay where they are in this step
RelaysStay == \A r \in Relays : pc'[r] = pc[r] /\ call'[r] = call[r]

\* C12: when storage.InstanceCreate fails after the container was created,
\* InstanceNew returns the error and no instance and releases the session's
\* lock, and undoes nothing: the instance stays in the session's instances, the
\* container stays, the relay goes on, no INSTANCE_NEW is emitted.
C12_PersistFailure ==
    [][\A t \in Tasks :
          /\ (pc[t] = "new_persist" /\ call'[t].err = "ErrStorage") =>
                /\ pc'[t] = "new_ret"
                /\ Instances' = Instances
                /\ containers' = containers
                /\ stored' = stored
                /\ terms' = terms
                /\ conns' = conns
                /\ lock' = lock
                /\ RelaysStay
                /\ out' = <<>>
          /\ (pc[t] = "new_ret" /\ call[t].err = "ErrStorage" /\ pc'[t] = "idle") =>
                /\ ret'.th = t
                /\ ret'.c.op = "InstanceNew"
                /\ ret'.c.err = "ErrStorage"
                /\ ret'.c.inst = NoInstance
                /\ lock'[call[t].sid] = NoTask
                /\ Instances' = Instances
                /\ containers' = containers
                /\ stored' = stored
                /\ terms' = terms
                /\ conns' = conns
                /\ RelaysStay
                /\ out' = <<>>]_vars

\* an InstanceNew has returned the storage's error: its instance is in the
\* session, its container is there, no record is persisted, and its relay is
\* copying
C12_Witness ==
    /\ ret.c.op = "InstanceNew"
    /\ ret.c.err = "ErrStorage"
    /\ ret.c.inst = NoInstance
    /\ lock[ret.c.sid] = NoTask
    /\ ret.c.name \in DOMAIN Instances[ret.c.sid]
    /\ ret.c.name \in DOMAIN containers
    /\ <<ret.c.sid, ret.c.name>> \notin stored
    /\ \E r \in Relays : pc[r] = "att_copy" /\ call[r].name = ret.c.name

\* an InstanceDelete is between its entry and its return
InDelete(t) == pc[t] = "del_engine"

\* C13: InstanceNew and InstanceDelete of one session hold the session's lock
\* for their whole duration: no two creates, and no create and delete, of the
\* same session are in progress at the same time.
C13_SessionOrdered ==
    \A t, u \in Tasks :
       (t # u /\ (InNew(t) \/ InDelete(t)) /\ (InNew(u) \/ InDelete(u))
             /\ call[t].sid = call[u].sid) =>
          /\ ~(InNew(t) /\ InNew(u))
          /\ ~(InNew(t) /\ InDelete(u))

\* C14: every access to the registry is synchronized: in no state is one
\* thread about to insert into terms while another is about to read it or to
\* insert into it.
C14_RegistrySynchronized == \A th, u \in Threads : ~Races(th, u)

\* the relay r runs for an instance whose InstanceDelete has returned nil
RelayOfDeleted(r) ==
    /\ pc[r] \in {"att_lookup", "att_connect", "att_register", "att_copy"}
    /\ <<call[r].sid, call[r].name>> \in DOMAIN fate
    /\ fate[<<call[r].sid, call[r].name>>] = "deleted"

\* C15: once InstanceDelete(S, I) has returned nil, the relay of I eventually
\* terminates under fair scheduling, however the delete interleaved with the
\* relay's lookup, attach, registration and copy loop.
C15_RelayCancelled ==
    \A r \in Relays : RelayOfDeleted(r) ~> (pc[r] \in {"done", "fatal"})

\* C16: InstanceWriteToTerminal(sessionId, instanceName, data) writes to a
\* channel if and only if the registry holds an entry for (sessionId,
\* instanceName) and data is not empty, and then it writes data to that
\* entry's channel; it returns no error and changes neither the registry nor a
\* session's instances.
C16_WriteRouting ==
    [][\A t \in Tasks :
          (pc[t] = "idle" /\ ret'.th = t /\ ret'.c.op = "InstanceWriteToTerminal") =>
             LET entry == getInstanceTermConn(ret'.c.sid, ret'.c.name)
             IN /\ ret'.c.data \in DataInputs
                /\ ret'.c.wrote = (IF entry # Nil /\ ret'.c.data # "" THEN entry ELSE Nil)
                /\ ret'.c.err = "nil"
                /\ terms' = terms
                /\ Instances' = Instances
                /\ conns' = conns
                /\ pc' = pc
                /\ out' = <<>>]_vars

\* a write of "ls" went to the channel registered for the instance
C16_Witness ==
    /\ ret.c.op = "InstanceWriteToTerminal"
    /\ ret.c.data = "ls"
    /\ ret.c.wrote # Nil
    /\ ret.c.wrote = getInstanceTermConn(ret.c.sid, ret.c.name)

\* C17: when the copy loop of InstanceAttachTerminal for (S, I) has ended on
\* the remote side's end of stream, without a delete closing the channel, the
\* registry holds no entry for (S, I) any more.
C17_RelayDeregisters ==
    (/\ ret.c.op = "InstanceAttachTerminal"
     /\ ret.c.conn # Nil
     /\ conns[ret.c.conn].state = "eof") =>
        getInstanceTermConn(ret.c.sid, ret.c.name) = Nil

\* the INSTANCE_NEW events among the events o
NewEvents(o) == {i \in 1..Len(o) : o[i][1] = "INSTANCE_NEW"}

\* C18: INSTANCE_NEW is emitted once per successful InstanceNew, after the
\* container was created, the instance inserted, the relay started and the
\* record persisted, and while the session's lock is held; it carries the
\* instance's name, IP and hostname; an InstanceNew that returns an error
\* emits none.
C18_CreationEvent ==
    [][/\ NewEvents(out') # {} =>
             \E t \in Tasks :
                /\ pc[t] = "new_persist" /\ pc'[t] = "new_ret"
                /\ call'[t].err = "nil"
                /\ call[t].engine = "ok"
                /\ <<call[t].sid, call[t].inst.Name>> \in DOMAIN fate
                /\ \E r \in Relays : pc[r] # "none"
                /\ <<call[t].sid, call[t].inst.Name>> \in stored'
                /\ lock[call[t].sid] = t /\ lock'[call[t].sid] = t
                /\ NewEvents(out') = {1}
                /\ out'[1] = <<"INSTANCE_NEW", call[t].sid, call[t].inst.Name,
                               call[t].inst.IP, call[t].inst.Hostname>>
       /\ \A t \in Tasks :
             /\ (pc[t] = "new_persist" /\ pc'[t] = "new_ret") =>
                   (call'[t].err = "nil" <=> NewEvents(out') # {})
             /\ (pc[t] = "new_ret" /\ pc'[t] = "idle") =>
                   /\ ret'.th = t /\ ret'.c.op = "InstanceNew"
                   /\ ret'.c.err = call[t].err
                   /\ ret'.c.err = "nil" <=> ret'.c.inst # NoInstance
             /\ (InNew(t) /\ ret'.th = t /\ ret'.c.err # "nil") => NewEvents(out') = {}]_vars

\* the event of a new instance has just been emitted by a task that holds the
\* session's lock and is about to return the instance
C18_Witness ==
    /\ NewEvents(out) = {1}
    /\ \E t \in Tasks :
          /\ pc[t] = "new_ret"
          /\ call[t].err = "nil"
          /\ lock[call[t].sid] = t
          /\ out[1] = <<"INSTANCE_NEW", call[t].sid, call[t].inst.Name,
                        call[t].inst.IP, call[t].inst.Hostname>>
          /\ <<call[t].sid, call[t].inst.Name>> \in stored

\* C19: InstanceNew called with an explicit hostname whose container name is
\* in the session's instances returns an error, keeps the hostname it was
\* given and leaves the record of the existing instance as it is.
C19_ExplicitCollision ==
    [][\A t \in Tasks :
          (/\ pc[t] = "new_create"
           /\ pc'[t] # pc[t]
           /\ call[t].conf.Hostname # ""
           /\ call[t].name \in DOMAIN Instances[call[t].sid]) =>
              /\ call[t].opts.Hostname = call[t].conf.Hostname
              /\ ret'.th = t
              /\ ret'.c.err # "nil"
              /\ Instances' = Instances]_vars

\* C20: InstanceDelete closes the registered channel before it calls the engine
\* and never undoes or deregisters it: when it returns an engine error other
\* than "No such container", the instance and its persisted record are as
\* before, the channel is closed, the registry entry remains, and a later
\* InstanceAttachTerminal for the instance returns nil without opening a channel.
C20_DeleteErrorKeepsClose ==
    [][/\ \A t \in Tasks :
             /\ (pc[t] = "idle" /\ pc'[t] = "del_engine") =>
                   LET entry == getInstanceTermConn(call'[t].sid, call'[t].name)
                   IN /\ call'[t].conn = entry
                      /\ entry # Nil => conns'[entry].state = "closed"
                      /\ terms' = terms /\ containers' = containers
             /\ (pc[t] = "del_engine" /\ ret'.th = t /\ ret'.c.engine = "other") =>
                   /\ ret'.c.err = "ErrEngine"
                   /\ Instances' = Instances /\ stored' = stored
                   /\ containers' = containers /\ terms' = terms
                   /\ conns' = conns /\ out' = <<>>
                   /\ ret'.c.conn # Nil =>
                         /\ conns'[ret'.c.conn].state = "closed"
                         /\ getInstanceTermConn(ret'.c.sid, ret'.c.name) # Nil
       /\ \A th \in Threads :
             (/\ pc[th] \in {"idle", "att_lookup"}
              /\ ret'.th = th /\ ret'.c.op = "InstanceAttachTerminal"
              /\ getInstanceTermConn(ret'.c.sid, ret'.c.name) # Nil) =>
                 /\ ret'.c.err = "nil"
                 /\ conns' = conns
                 /\ terms' = terms
       /\ \A th \in Threads :
             (pc[th] \in {"idle", "att_lookup"} /\ pc'[th] = "att_connect") =>
                getInstanceTermConn(call'[th].sid, call'[th].name) = Nil
       /\ \A s \in DOMAIN terms : \A n \in DOMAIN terms[s] :
             /\ s \in DOMAIN terms' /\ n \in DOMAIN terms'[s]
             /\ conns[terms[s][n]].state = "closed" => conns'[terms[s][n]].state = "closed"]_vars

\* InstanceDelete has returned the engine's error: the instance is in the
\* session and persisted, its channel is closed and still registered
C20_Witness ==
    /\ ret.c.op = "InstanceDelete"
    /\ ret.c.engine = "other"
    /\ ret.c.err = "ErrEngine"
    /\ ret.c.conn # Nil
    /\ conns[ret.c.conn].state = "closed"
    /\ getInstanceTermConn(ret.c.sid, ret.c.name) = ret.c.conn
    /\ ret.c.name \in DOMAIN Instances[ret.c.sid]
    /\ <<ret.c.sid, ret.c.name>> \in stored

====
